---- MODULE Spec2Model ----
\* Model of purpleair2mqtt: the MQTT connection orchestrator
\* (MqttConnectionClient, mqtt_event_receiver.py) and the sensor poller
\* (PurpleAirReceiver, purpleair_receiver.py).
\*
\* Two execution contexts are modelled: the main thread, which runs
\* connect_and_loop, and the transport's network thread, which runs the
\* on_connect / on_message / on_disconnect callbacks between loop_start and
\* loop_stop.  The external stop signal (KeyboardInterrupt) is delivered to
\* the main thread at most once, at any point of its execution.
EXTENDS Integers, Sequences, FiniteSets

\* ------------------------------------------------------------------ bounds
NumUrls == 2          \* entries of config.urls
MaxTicks == 2         \* loop iterations explored
MaxConnects == 2      \* on_connect invocations explored
MaxMsgs == 1          \* inbound messages explored
NumTopics == 1        \* distinct inbound topics

Urls == 1..NumUrls
Topics == 1..NumTopics

\* ---------------------------------------------------------- python values
\* The value returned by process_mqtt_loop: None or an integer.
RetNone == [none |-> TRUE, val |-> 0]
RetInt(n) == [none |-> FALSE, val |-> n]
TickReturns == {RetNone} \cup {RetInt(n) : n \in {-1, 0, 2}}

\* Python truthiness of such a value and the `a or b` expression.
PyTruthy(r) == ~r.none /\ r.val # 0
PyOr(r, dflt) == IF PyTruthy(r) THEN r.val ELSE dflt

\* Default delay of the main loop (sleep_until = 1).
DefaultSleep == 1

\* refresh_interval_seconds after load: `get(...) or 300`, so never 0/None.
RefreshIntervals == {-1, 2}

\* What one HTTP GET of a sensor URL can produce:
\*   reqerror  httpx.RequestError raised
\*   non200    a response whose status_code is not 200
\*   ok        200, body is a JSON object with a string SensorId
\*   badjson   200, body is not valid JSON
\*   noid      200, body is a JSON object without a SensorId field
Outcomes == {"reqerror", "non200", "ok", "badjson", "noid"}
HttpFailed(o) == o \in {"reqerror", "non200"}

\* What an inbound payload can be:
\*   json     UTF-8 text that is valid JSON
\*   badjson  UTF-8 text that is not valid JSON
\*   badutf8  bytes that are not valid UTF-8 (hence not JSON either)
Payloads == {"json", "badjson", "badutf8"}

Processors == {"None", "PurpleAir", "Generic"}

\* MqttConnectionClient.ONLINE_STATUS / OFFLINE_STATUS.
ONLINE_STATUS == "online"
OFFLINE_STATUS == "offline"

\* ------------------------------------------------- strings and topics
\* A string is a sequence of tokens; a character of a SensorId is a token,
\* and so is each literal piece of a topic.
MaxLen == 3           \* length of the SensorIds explored

\* The characters strip_seperators removes, and two it keeps.
Separators == {" ", ",", ":", "-"}
Alphabet == Separators \cup {"A", "1"}
Strings == UNION {[1..n -> Alphabet] : n \in 0..MaxLen}
\* "AB:12, 34-5"
ExampleId == <<"A", "B", ":", "1", "2", ",", " ", "3", "4", "-", "5">>
SensorIds == Strings \cup {ExampleId}

\* An optional string: None or a str.
PyNone == [none |-> TRUE, str |-> <<>>]
PyStr(s) == [none |-> FALSE, str |-> s]
\* `v or None` and `v or "default"` on an optional string.
OrNone(v) == IF v.none \/ v.str = <<>> THEN PyNone ELSE v
OrDefault(v, d) == IF v.none \/ v.str = <<>> THEN PyStr(d) ELSE v
\* An optional string rendered inside an f-string.
Format(v) == IF v.none THEN <<"None">> ELSE v.str

\* str.replace(c, ""): every occurrence of the character c is removed.
RECURSIVE Replace(_, _)
Replace(s, c) ==
    IF s = <<>> THEN <<>>
    ELSE IF Head(s) = c THEN Replace(Tail(s), c)
         ELSE <<Head(s)>> \o Replace(Tail(s), c)

\* Variant of strip_seperators: the hyphen is kept.
StripSeperators_KeepsHyphen(value) ==
    Replace(Replace(Replace(value, " "), ","), ":")

\* PurpleAirReceiver.strip_seperators, lines 124-126.
StripSeperators(value) ==
    Replace(Replace(Replace(Replace(value, " "), ","), ":"), "-")

\* ------------------------------------------------------- configuration
\* AppConfig(): MqttConfiguration and HomeAssistantConfiguration defaults.
DefaultConfig ==
    [status_topic      |-> PyStr(<<"alerts/purpleair2mqtt">>),
     sensor_topic_root |-> PyStr(<<"sensors/purpleair2mqtt">>),
     discovery_topic   |-> PyStr(<<"homeassistant">>)]

\* What data.get(section).get(key) can be for a topic setting: None (key
\* missing or null), the empty string, or a string.
InputValues(tok) == {PyNone, PyStr(<<>>), PyStr(<<tok>>)}

\* The dictionaries handed to apply_from_dict, as far as the topics go.
MqttSections ==
    [present : {FALSE}, status_topic : {PyNone}, sensor_topic_root : {PyNone}]
    \cup [present : {TRUE}, status_topic : InputValues("st"),
          sensor_topic_root : InputValues("rt")]
HassSections ==
    [present : {FALSE}, discovery_topic : {PyNone}]
    \cup [present : {TRUE}, discovery_topic : InputValues("dt")]
Dicts == [mqtt : MqttSections, home_assistant : HassSections]

\* AppConfig.load_mqtt_config, lines 122-132.
LoadMqttConfig(cfg, data) ==
    IF data.mqtt.present
    THEN [cfg EXCEPT !.status_topic = OrNone(data.mqtt.status_topic),
                     !.sensor_topic_root = OrNone(data.mqtt.sensor_topic_root)]
    ELSE cfg

\* AppConfig.load_home_assistant_config, lines 134-139.
LoadHomeAssistantConfig(cfg, data) ==
    IF data.home_assistant.present
    THEN [cfg EXCEPT !.discovery_topic =
                 OrDefault(data.home_assistant.discovery_topic, <<"homeassistant">>)]
    ELSE cfg

\* ------------------------------------------------------ device responses
\* Keys of purple_air_sensors explored, with their static templates.
TableKeys == {"Adc", "current_temp_f", "Geo"}
StaticTable == [k \in TableKeys |-> [value_template |-> k]]

\* Keys a response may carry besides SensorId, and the order in which
\* data.items() yields the keys.
OptionalKeys == {"Adc", "Geo", "version"}
KeyOrder == <<"SensorId", "Adc", "Geo", "version">>

\* The body text of a 200 response: a JSON object with a string SensorId,
\* written compactly or with extra whitespace.
TextForms == {"compact", "spaced"}
Responses == [form : TextForms, SensorId : SensorIds, keys : SUBSET OptionalKeys]
NoResponse == [form |-> "none", SensorId |-> <<>>, keys |-> {}]

\* json.loads / response.json(): the object, without the spelling of the text.
JsonLoads(text) == [SensorId |-> text.SensorId,
                    keys |-> {"SensorId"} \cup text.keys]
\* json.dumps: a canonical text of an object or a record.
JsonDumps(obj) == [form |-> "dumps", value |-> obj]

VARIABLES
    \* construction / configuration
    processor,            \* which processor the client was constructed with
    listen_enabled,
    discovery_enabled,
    refresh_interval_seconds,
    wantsJson,            \* topics for which a Generic processor wants JSON
    \* main thread
    pc, crash, interrupted, will_set, lastWill, connectAttempts, mqtt_client,
    sleep_until, lastRet, lastSleep, sleeps, ticks, idx,
    \* sensor poller
    hass_discovery_complete, discRuns,
    lastFetch, cycleRes, cyclePub, prevSkipped,
    pollFetches, discFetches, discFailed, pubDisc,
    \* network thread / transport
    netState, session, subscribes, statusLog, statusRetain, onConnects,
    msgs, lastMsg,
    \* history of the teardown
    teardown, cleanUps,
    \* data carried by one load / discovery / poll (see DataSpec)
    dpc,                  \* position of the data scenario
    config,               \* AppConfig: the mqtt and home_assistant fields
    status_topic,         \* MqttConnectionClient.status_topic
    response,             \* body text of the latest 200 response
    sensor_id,            \* local sensor_id of the latest body processed
    published,            \* messages handed to client.publish, in order
    purple_air_sensors    \* PurpleAirReceiver.purple_air_sensors

cfgVars == <<processor, listen_enabled, discovery_enabled,
             refresh_interval_seconds, wantsJson>>
mainVars == <<pc, crash, interrupted, will_set, lastWill, connectAttempts, mqtt_client,
              sleep_until, lastRet, lastSleep, sleeps, ticks, idx>>
pollVars == <<hass_discovery_complete, discRuns, lastFetch, cycleRes, cyclePub,
              prevSkipped, pollFetches, discFetches, discFailed, pubDisc>>
netVars == <<netState, session, subscribes, statusLog, statusRetain, onConnects,
             msgs, lastMsg>>
histVars == <<teardown, cleanUps>>
dataVars == <<dpc, config, status_topic, response, sensor_id, published,
              purple_air_sensors>>
controlVars == <<cfgVars, mainVars, pollVars, netVars, histVars>>
vars == <<controlVars, dataVars>>

\* Positions of the main thread inside the try block of connect_and_loop.
InTry == {"loop", "tick", "disc", "poll", "sleep"}
\* Positions after which connect_and_loop is over.
Terminal == {"done", "crashed", "aborted", "connect_failed"}

NoMsg == [payload |-> "none", wants |-> FALSE, result |-> "none",
          called |-> FALSE]
\* No last will registered yet.
NoWill == [payload |-> "none", retain |-> FALSE]
NoResult == [u \in Urls |-> "none"]
Zeros == [u \in Urls |-> 0]

\* State of the orchestrator and the poller after construction.
InitControl ==
    /\ processor \in Processors
    /\ listen_enabled \in BOOLEAN
    /\ discovery_enabled \in BOOLEAN
    /\ refresh_interval_seconds \in RefreshIntervals
    /\ wantsJson \in SUBSET Topics
    /\ (processor # "Generic" => wantsJson = {})
    /\ (processor # "PurpleAir" =>
            /\ discovery_enabled = TRUE
            /\ refresh_interval_seconds = 2)
    /\ pc = "new"
    /\ crash = "none"
    /\ interrupted = FALSE
    /\ will_set = FALSE
    /\ lastWill = NoWill
    /\ connectAttempts = 0
    /\ mqtt_client = FALSE
    /\ sleep_until = 0
    /\ lastRet = RetNone
    /\ lastSleep = 0
    /\ sleeps = 0
    /\ ticks = 0
    /\ idx = 0
    /\ hass_discovery_complete = FALSE
    /\ discRuns = 0
    /\ lastFetch = "none"
    /\ cycleRes = NoResult
    /\ cyclePub = Zeros
    /\ prevSkipped = {}
    /\ pollFetches = Zeros
    /\ discFetches = Zeros
    /\ discFailed = [u \in Urls |-> FALSE]
    /\ pubDisc = Zeros
    /\ netState = "idle"
    /\ session = "none"
    /\ subscribes = 0
    /\ statusLog = <<>>
    /\ statusRetain = <<>>
    /\ onConnects = 0
    /\ msgs = 0
    /\ lastMsg = NoMsg
    /\ teardown = <<>>
    /\ cleanUps = 0

\* In Spec the topics and payloads are abstract: the data scenario is off.
InitDataOff ==
    /\ dpc = "off"
    /\ config = DefaultConfig
    /\ status_topic = DefaultConfig.status_topic
    /\ response = NoResponse
    /\ sensor_id = <<>>
    /\ published = <<>>
    /\ purple_air_sensors = StaticTable

Init ==
    /\ InitControl
    /\ InitDataOff


\* ------------------------------------------------------------ main thread

\* Variant of WillSet: the callbacks are registered but will_set is not
\* called.
WillSet_Skipped ==
    /\ pc = "new"
    /\ pc' = "connect"
    /\ UNCHANGED <<cfgVars, dataVars, crash, interrupted, will_set, lastWill,
                   connectAttempts, mqtt_client,
                   sleep_until, lastRet, lastSleep, sleeps, ticks, idx,
                   pollVars, netVars, histVars>>

\* connect_and_loop, lines 129-133: create the client, register the last
\* will and the callbacks.
WillSet ==
    /\ pc = "new"
    /\ will_set' = TRUE
    /\ lastWill' = [payload |-> OFFLINE_STATUS, retain |-> TRUE]
    /\ pc' = "connect"
    /\ UNCHANGED <<cfgVars, dataVars, crash, interrupted, connectAttempts, mqtt_client,
                   sleep_until, lastRet, lastSleep, sleeps, ticks, idx,
                   pollVars, netVars, histVars>>

\* Variant of Connect: a failed connect is logged but not re-raised.
Connect_NoRaise ==
    /\ pc = "connect"
    /\ connectAttempts' = connectAttempts + 1
    /\ \E ok \in BOOLEAN :
         /\ pc' = "set_client"
         /\ session' = IF ok THEN "pending" ELSE session
         /\ crash' = crash
    /\ UNCHANGED <<cfgVars, dataVars, interrupted, will_set, lastWill, mqtt_client,
                   sleep_until, lastRet, lastSleep, sleeps, ticks, idx,
                   pollVars, netState, subscribes, statusLog, statusRetain, onConnects,
                   msgs, lastMsg, histVars>>

\* Variant of Connect: a failed connect is attempted a second time before
\* the exception is re-raised.
Connect_Retry ==
    /\ pc = "connect"
    /\ connectAttempts' = connectAttempts + 1
    /\ \E ok \in BOOLEAN :
         IF ok
         THEN /\ pc' = "set_client"
              /\ session' = "pending"
              /\ crash' = crash
         ELSE /\ pc' = IF connectAttempts = 0 THEN "connect" ELSE "connect_failed"
              /\ session' = session
              /\ crash' = IF connectAttempts = 0 THEN crash ELSE "ConnectError"
    /\ UNCHANGED <<cfgVars, dataVars, interrupted, will_set, lastWill, mqtt_client,
                   sleep_until, lastRet, lastSleep, sleeps, ticks, idx,
                   pollVars, netState, subscribes, statusLog, statusRetain,
                   onConnects, msgs, lastMsg, histVars>>

\* connect_and_loop, lines 138-143: one connect attempt; an exception is
\* logged and re-raised.
Connect ==
    /\ pc = "connect"
    /\ connectAttempts' = connectAttempts + 1
    /\ \E ok \in BOOLEAN :
         IF ok
         THEN /\ pc' = "set_client"
              /\ session' = "pending"
              /\ crash' = crash
         ELSE /\ pc' = "connect_failed"
              /\ session' = session
              /\ crash' = "ConnectError"
    /\ UNCHANGED <<cfgVars, dataVars, interrupted, will_set, lastWill, mqtt_client,
                   sleep_until, lastRet, lastSleep, sleeps, ticks, idx,
                   pollVars, netState, subscribes, statusLog, statusRetain, onConnects,
                   msgs, lastMsg, histVars>>

\* Variant of SetClient: the handle is not stored before loop_start.
SetClient_Skipped ==
    /\ pc = "set_client"
    /\ pc' = "loop_start"
    /\ UNCHANGED <<cfgVars, dataVars, crash, interrupted, will_set, lastWill,
                   connectAttempts, mqtt_client,
                   sleep_until, lastRet, lastSleep, sleeps, ticks, idx,
                   pollVars, netVars, histVars>>

\* connect_and_loop, line 145: self.mqtt_client = client.
SetClient ==
    /\ pc = "set_client"
    /\ mqtt_client' = TRUE
    /\ pc' = "loop_start"
    /\ UNCHANGED <<cfgVars, dataVars, crash, interrupted, will_set, lastWill, connectAttempts,
                   sleep_until, lastRet, lastSleep, sleeps, ticks, idx,
                   pollVars, netVars, histVars>>

\* connect_and_loop, line 148: client.loop_start() starts the network thread.
LoopStart ==
    /\ pc = "loop_start"
    /\ netState' = "running"
    /\ pc' = "loop"
    /\ UNCHANGED <<cfgVars, dataVars, crash, interrupted, will_set, lastWill, connectAttempts,
                   mqtt_client, sleep_until, lastRet, lastSleep, sleeps, ticks, idx,
                   pollVars, session, subscribes, statusLog, statusRetain, onConnects,
                   msgs, lastMsg, histVars>>

\* The argument of time.sleep for a tick that returned r (line 155):
\* `process_mqtt_loop(self) or sleep_until`, with sleep_until = 1.
SleepArg(r) == PyOr(r, DefaultSleep)

\* connect_and_loop, lines 152-155, with no processor: sleep_until stays 1.
LoopNoProcessor ==
    /\ pc = "loop"
    /\ processor = "None"
    /\ sleeps < MaxTicks
    /\ sleep_until' = DefaultSleep
    /\ pc' = "sleep"
    /\ UNCHANGED <<cfgVars, dataVars, crash, interrupted, will_set, lastWill, connectAttempts,
                   mqtt_client, lastRet, lastSleep, sleeps, ticks, idx,
                   pollVars, netVars, histVars>>

\* connect_and_loop, lines 152-155, with an arbitrary MqttEventProcessor:
\* its process_mqtt_loop returns some value r.
LoopGenericTick ==
    /\ pc = "loop"
    /\ processor = "Generic"
    /\ ticks < MaxTicks
    /\ ticks' = ticks + 1
    /\ \E r \in TickReturns :
         /\ lastRet' = r
         /\ sleep_until' = SleepArg(r)
    /\ pc' = "sleep"
    /\ UNCHANGED <<cfgVars, dataVars, crash, interrupted, will_set, lastWill, connectAttempts,
                   mqtt_client, lastSleep, sleeps, idx,
                   pollVars, netVars, histVars>>

\* connect_and_loop, lines 152-155, with the PurpleAirReceiver: enter
\* process_mqtt_loop.
LoopCallTick ==
    /\ pc = "loop"
    /\ processor = "PurpleAir"
    /\ ticks < MaxTicks
    /\ ticks' = ticks + 1
    /\ pc' = "tick"
    /\ sleep_until' = DefaultSleep
    /\ prevSkipped' = {u \in Urls : cycleRes[u] = "skip"}
    /\ cycleRes' = NoResult
    /\ cyclePub' = Zeros
    /\ UNCHANGED <<cfgVars, dataVars, crash, interrupted, will_set, lastWill, connectAttempts,
                   mqtt_client, lastRet, lastSleep, sleeps, idx,
                   hass_discovery_complete, discRuns, lastFetch, pollFetches,
                   discFetches, discFailed, pubDisc, netVars, histVars>>

\* Variant of RunsDiscovery: the configuration switch is not consulted.
RunsDiscovery_IgnoresEnabled(enabled, complete) == ~complete

\* Variant of RunsDiscovery: the discovery-published flag is not consulted.
RunsDiscovery_IgnoresFlag(enabled, complete) == enabled

\* process_mqtt_loop, line 137: whether this tick runs discovery.
RunsDiscovery(enabled, complete) == enabled /\ ~complete

\* Variant of ProcessMqttLoop: discovery is started with the flag left for
\* later.
ProcessMqttLoop_FlagNotSet ==
    /\ pc = "tick"
    /\ idx' = 1
    /\ IF RunsDiscovery(discovery_enabled, hass_discovery_complete)
       THEN /\ discRuns' = discRuns + 1
            /\ pc' = "disc"
       ELSE /\ discRuns' = discRuns
            /\ pc' = "poll"
    /\ UNCHANGED <<cfgVars, dataVars, crash, interrupted, will_set, lastWill,
                   connectAttempts, mqtt_client, sleep_until, lastRet, lastSleep,
                   sleeps, ticks, hass_discovery_complete,
                   lastFetch, cycleRes, cyclePub, prevSkipped, pollFetches,
                   discFetches, discFailed, pubDisc, netVars, histVars>>

\* process_mqtt_loop, lines 137-141: set the flag and start discovery, or go
\* straight to polling.
ProcessMqttLoop ==
    /\ pc = "tick"
    /\ idx' = 1
    /\ IF RunsDiscovery(discovery_enabled, hass_discovery_complete)
       THEN /\ hass_discovery_complete' = TRUE
            /\ discRuns' = discRuns + 1
            /\ pc' = "disc"
       ELSE /\ UNCHANGED <<hass_discovery_complete, discRuns>>
            /\ pc' = "poll"
    /\ UNCHANGED <<cfgVars, dataVars, crash, interrupted, will_set, lastWill, connectAttempts,
                   mqtt_client, sleep_until, lastRet, lastSleep, sleeps, ticks,
                   lastFetch, cycleRes, cyclePub, prevSkipped, pollFetches,
                   discFetches, discFailed, pubDisc, netVars, histVars>>

\* Variant of FetchResult: httpx.RequestError is not caught.
FetchResult_Uncaught(o) ==
    CASE o = "reqerror" -> "RequestError"
      [] o = "non200"   -> "skip"
      [] o = "ok"       -> "publish"
      [] o = "badjson"  -> "JSONDecodeError"
      [] o = "noid"     -> "AttributeError"

\* What the body of either for-loop does with the outcome of one GET:
\*   "skip"     log and continue          (lines 50-56, 80-86)
\*   "publish"  parse and publish         (lines 58-59 and 66-69, 88-120)
\*   "Json..."  json.loads / response.json() raises json.JSONDecodeError
\*   "Attr..."  strip_seperators(None) raises AttributeError
FetchResult(o) ==
    CASE HttpFailed(o) -> "skip"
      [] o = "ok"      -> "publish"
      [] o = "badjson" -> "JSONDecodeError"
      [] o = "noid"    -> "AttributeError"

\* publish_discovery_for_devices, lines 74-122: one iteration of the loop
\* over config.urls.
PublishDiscoveryStep ==
    /\ pc = "disc"
    /\ \E o \in Outcomes :
         LET res == FetchResult(o) IN
         /\ lastFetch' = o
         /\ discFetches' = [discFetches EXCEPT ![idx] = @ + 1]
         /\ discFailed' = [discFailed EXCEPT ![idx] = HttpFailed(o)]
         /\ pubDisc' = [pubDisc EXCEPT ![idx] =
                            IF res = "publish" THEN @ + 1 ELSE @]
         /\ IF res \in {"skip", "publish"}
            THEN /\ crash' = crash
                 /\ IF idx = NumUrls
                    THEN pc' = "poll" /\ idx' = 1
                    ELSE pc' = pc /\ idx' = idx + 1
            ELSE /\ crash' = res
                 /\ pc' = "crashed"
                 /\ idx' = idx
    /\ UNCHANGED <<cfgVars, dataVars, interrupted, will_set, lastWill, connectAttempts,
                   mqtt_client, sleep_until, lastRet, lastSleep, sleeps, ticks,
                   hass_discovery_complete, discRuns, cycleRes, cyclePub,
                   prevSkipped, pollFetches, netVars, histVars>>

\* retrieve_latest_data, lines 45-59, and process_json_data, lines 61-69: one
\* iteration of the loop over config.urls; after the last one
\* process_mqtt_loop returns refresh_interval_seconds (line 142).
RetrieveLatestDataStep ==
    /\ pc = "poll"
    /\ \E o \in Outcomes :
         LET res == FetchResult(o) IN
         /\ pollFetches' = [pollFetches EXCEPT ![idx] = @ + 1]
         /\ lastFetch' = o
         /\ cycleRes' = [cycleRes EXCEPT ![idx] = res]
         /\ cyclePub' = [cyclePub EXCEPT ![idx] =
                            IF res = "publish" THEN @ + 1 ELSE @]
         /\ IF res \in {"skip", "publish"}
            THEN /\ crash' = crash
                 /\ IF idx = NumUrls
                    THEN /\ pc' = "sleep"
                         /\ idx' = 0
                         /\ lastRet' = RetInt(refresh_interval_seconds)
                         /\ sleep_until' =
                                SleepArg(RetInt(refresh_interval_seconds))
                    ELSE /\ pc' = pc
                         /\ idx' = idx + 1
                         /\ UNCHANGED <<sleep_until, lastRet>>
            ELSE /\ crash' = res
                 /\ pc' = "crashed"
                 /\ idx' = idx
                 /\ UNCHANGED <<sleep_until, lastRet>>
    /\ UNCHANGED <<cfgVars, dataVars, interrupted, will_set, lastWill, connectAttempts,
                   mqtt_client, lastSleep, sleeps, ticks,
                   hass_discovery_complete, discRuns, prevSkipped,
                   discFetches, discFailed, pubDisc, netVars, histVars>>

\* connect_and_loop, line 156: time.sleep(sleep_until); a negative argument
\* raises ValueError, which the `except KeyboardInterrupt` does not catch.
Sleep ==
    /\ pc = "sleep"
    /\ IF sleep_until < 0
       THEN /\ pc' = "crashed"
            /\ crash' = "ValueError"
            /\ UNCHANGED <<lastSleep, sleeps>>
       ELSE /\ pc' = "loop"
            /\ crash' = crash
            /\ lastSleep' = sleep_until
            /\ sleeps' = sleeps + 1
    /\ UNCHANGED <<cfgVars, dataVars, interrupted, will_set, lastWill, connectAttempts,
                   mqtt_client, sleep_until, lastRet, ticks, idx,
                   pollVars, netVars, histVars>>

\* Variant of KeyboardInterrupt: a signal arriving inside a tick is only
\* noted and the cycle goes on.
KeyboardInterrupt_Deferred ==
    /\ ~interrupted
    /\ pc \in InTry \cup {"new", "connect", "set_client", "loop_start"}
    /\ interrupted' = TRUE
    /\ IF pc \in {"tick", "disc", "poll"}
       THEN pc' = pc /\ crash' = crash
       ELSE IF pc \in InTry
            THEN pc' = "sd_publish" /\ crash' = crash
            ELSE pc' = "aborted" /\ crash' = "KeyboardInterrupt"
    /\ UNCHANGED <<cfgVars, dataVars, will_set, lastWill, connectAttempts,
                   mqtt_client, sleep_until, lastRet, lastSleep, sleeps, ticks,
                   idx, pollVars, netVars, histVars>>

\* The external stop signal: KeyboardInterrupt raised in the main thread.
\* Inside the try block (lines 151-159) it is caught and the teardown
\* follows; anywhere before it propagates out of connect_and_loop.
KeyboardInterrupt ==
    /\ ~interrupted
    /\ pc \in InTry \cup {"new", "connect", "set_client", "loop_start"}
    /\ interrupted' = TRUE
    /\ IF pc \in InTry
       THEN pc' = "sd_publish" /\ crash' = crash
       ELSE pc' = "aborted" /\ crash' = "KeyboardInterrupt"
    /\ UNCHANGED <<cfgVars, dataVars, will_set, lastWill, connectAttempts, mqtt_client,
                   sleep_until, lastRet, lastSleep, sleeps, ticks, idx,
                   pollVars, netVars, histVars>>

\* Variant of NextShutdown: after the "offline" publish the main thread
\* goes round the loop once more.
NextShutdown_BackToLoop(p) ==
    CASE p = "sd_publish"    -> "loop"
      [] p = "sd_loop_stop"  -> "sd_disconnect"
      [] p = "sd_disconnect" -> "sd_clean_up"
      [] p = "sd_clean_up"   -> "done"

\* Variant of NextShutdown: the processor is cleaned up before the
\* connection is closed.
NextShutdown_CleanUpFirst(p) ==
    CASE p = "sd_publish"    -> "sd_loop_stop"
      [] p = "sd_loop_stop"  -> "sd_clean_up"
      [] p = "sd_clean_up"   -> "sd_disconnect"
      [] p = "sd_disconnect" -> "done"

\* The order of the teardown, lines 161-168: the position that follows p.
NextShutdown(p) ==
    CASE p = "sd_publish"    -> "sd_loop_stop"
      [] p = "sd_loop_stop"  -> "sd_disconnect"
      [] p = "sd_disconnect" -> "sd_clean_up"
      [] p = "sd_clean_up"   -> "done"

\* connect_and_loop, line 162: publish retained "offline" on the status topic.
ShutdownPublish ==
    /\ pc = "sd_publish"
    /\ statusLog' = Append(statusLog, OFFLINE_STATUS)
    /\ statusRetain' = Append(statusRetain, TRUE)
    /\ teardown' = Append(teardown, "offline")
    /\ pc' = NextShutdown(pc)
    /\ UNCHANGED <<cfgVars, dataVars, crash, interrupted, will_set, lastWill, connectAttempts,
                   mqtt_client, sleep_until, lastRet, lastSleep, sleeps, ticks, idx,
                   pollVars, netState, session, subscribes, onConnects,
                   msgs, lastMsg, cleanUps>>

\* connect_and_loop, line 164: client.loop_stop() stops and joins the
\* network thread.
LoopStop ==
    /\ pc = "sd_loop_stop"
    /\ netState' = "stopped"
    /\ teardown' = Append(teardown, "loop_stop")
    /\ pc' = NextShutdown(pc)
    /\ UNCHANGED <<cfgVars, dataVars, crash, interrupted, will_set, lastWill, connectAttempts,
                   mqtt_client, sleep_until, lastRet, lastSleep, sleeps, ticks, idx,
                   pollVars, session, subscribes, statusLog, statusRetain, onConnects,
                   msgs, lastMsg, cleanUps>>

\* connect_and_loop, line 165: client.disconnect().
Disconnect ==
    /\ pc = "sd_disconnect"
    /\ session' = "closed"
    /\ teardown' = Append(teardown, "disconnect")
    /\ pc' = NextShutdown(pc)
    /\ UNCHANGED <<cfgVars, dataVars, crash, interrupted, will_set, lastWill, connectAttempts,
                   mqtt_client, sleep_until, lastRet, lastSleep, sleeps, ticks, idx,
                   pollVars, netState, subscribes, statusLog, statusRetain, onConnects,
                   msgs, lastMsg, cleanUps>>

\* connect_and_loop, lines 166-168: self.processor.clean_up(self); with
\* processor None the attribute access raises AttributeError.
CleanUp ==
    /\ pc = "sd_clean_up"
    /\ IF processor = "None"
       THEN /\ pc' = "crashed"
            /\ crash' = "AttributeError"
            /\ UNCHANGED <<teardown, cleanUps>>
       ELSE /\ pc' = NextShutdown(pc)
            /\ crash' = crash
            /\ teardown' = Append(teardown, "clean_up")
            /\ cleanUps' = cleanUps + 1
    /\ UNCHANGED <<cfgVars, dataVars, interrupted, will_set, lastWill, connectAttempts,
                   mqtt_client, sleep_until, lastRet, lastSleep, sleeps, ticks, idx,
                   pollVars, netVars>>


\* --------------------------------------------------------- network thread
\* The callbacks run on the transport's thread while it is running and the
\* process is alive.
NetAlive == netState = "running" /\ pc \notin Terminal

\* Variant of OnConnect: subscribes whatever listen_enabled is.
OnConnect_AlwaysSubscribes ==
    /\ NetAlive
    /\ session = "pending"
    /\ onConnects < MaxConnects
    /\ onConnects' = onConnects + 1
    /\ session' = "up"
    /\ subscribes' = subscribes + 1
    /\ statusLog' = Append(statusLog, ONLINE_STATUS)
    /\ statusRetain' = Append(statusRetain, TRUE)
    /\ UNCHANGED <<cfgVars, dataVars, mainVars, pollVars, netState, msgs, lastMsg,
                   histVars>>

\* on_connect, lines 92-105: invoked by the transport on every CONNACK (the
\* initial connect and every reconnect).
OnConnect ==
    /\ NetAlive
    /\ session = "pending"
    /\ onConnects < MaxConnects
    /\ onConnects' = onConnects + 1
    /\ session' = "up"
    /\ subscribes' = IF listen_enabled THEN subscribes + 1 ELSE subscribes
    /\ statusLog' = Append(statusLog, ONLINE_STATUS)
    /\ statusRetain' = Append(statusRetain, TRUE)
    /\ UNCHANGED <<cfgVars, dataVars, mainVars, pollVars, netState, msgs, lastMsg,
                   histVars>>

\* Variant of OnDisconnect: the callback calls connect again.
OnDisconnect_Reconnects ==
    /\ NetAlive
    /\ session = "up"
    /\ \E rc \in {0, 1} : session' = "pending"
    /\ connectAttempts' = connectAttempts + 1
    /\ UNCHANGED <<cfgVars, dataVars, pc, crash, interrupted, will_set, lastWill,
                   mqtt_client, sleep_until, lastRet, lastSleep, sleeps, ticks,
                   idx, pollVars, netState, subscribes,
                   statusLog, statusRetain, onConnects, msgs, lastMsg, histVars>>

\* on_disconnect, lines 107-110: logs when rc # 0 and does nothing else.  The
\* transport's thread then tries to reconnect on its own; the session is
\* pending until a CONNACK arrives (which may never happen).
OnDisconnect ==
    /\ NetAlive
    /\ session = "up"
    /\ \E rc \in {0, 1} : session' = "pending"
    /\ UNCHANGED <<cfgVars, dataVars, mainVars, pollVars, netState, subscribes,
                   statusLog, statusRetain, onConnects, msgs, lastMsg, histVars>>

\* Variant of WantsJson: every processor wants JSON on every topic.
WantsJson_Always(t) == TRUE

\* wants_json of the processor: PurpleAirReceiver.wants_json (lines 144-145)
\* is always False; another processor decides per topic.
WantsJson(t) == processor = "Generic" /\ t \in wantsJson

\* on_message, lines 77-90: what one invocation does with a payload p on
\* topic t:
\*   "raw"      process_mqtt_event is called with the payload bytes
\*   "decoded"  process_mqtt_event is called with the decoded JSON
\*   "ignored"  no processor: nothing is called
\*   "dropped"  json.JSONDecodeError caught and logged
\*   "raised"   payload.decode('utf-8') raises UnicodeDecodeError, which the
\*              `except json.JSONDecodeError` does not catch
MessageResult(t, p) ==
    IF processor # "None" /\ WantsJson(t)
    THEN CASE p = "badutf8" -> "raised"
           [] p = "badjson" -> "dropped"
           [] p = "json"    -> "decoded"
    ELSE IF processor # "None" THEN "raw" ELSE "ignored"

\* on_message, lines 75-90: invoked by the transport for every message on a
\* subscribed topic.  An exception leaving the callback ends the network
\* thread.
OnMessage ==
    /\ NetAlive
    /\ session = "up"
    /\ subscribes > 0
    /\ msgs < MaxMsgs
    /\ msgs' = msgs + 1
    /\ \E t \in Topics : \E p \in Payloads :
         LET res == MessageResult(t, p) IN
         /\ lastMsg' = [payload |-> p, wants |-> WantsJson(t),
                        result |-> res,
                        called |-> res \in {"raw", "decoded"}]
         /\ netState' = IF res = "raised" THEN "dead" ELSE netState
    /\ UNCHANGED <<cfgVars, dataVars, mainVars, pollVars, session, subscribes,
                   statusLog, statusRetain, onConnects, histVars>>

Next ==
    \/ WillSet
    \/ Connect
    \/ SetClient
    \/ LoopStart
    \/ LoopNoProcessor
    \/ LoopGenericTick
    \/ LoopCallTick
    \/ ProcessMqttLoop
    \/ PublishDiscoveryStep
    \/ RetrieveLatestDataStep
    \/ Sleep
    \/ KeyboardInterrupt
    \/ ShutdownPublish
    \/ LoopStop
    \/ Disconnect
    \/ CleanUp
    \/ OnConnect
    \/ OnDisconnect
    \/ OnMessage

Spec == Init /\ [][Next]_vars


\* ----------------------------------------------- topics and payloads
\* The data scenario: the configuration is loaded, the client is built on
\* it as main.py does, the last will is registered, and one device is
\* fetched by the discovery pass and by the poll pass.  The messages handed
\* to the transport are recorded with their topic, payload and retain flag.

\* client.publish(topic, value, retain=retain).
Msg(topic, value, retain) ==
    [topic |-> topic, payload |-> value, retain |-> retain]

\* MqttConnectionClient.publish_message, lines 113-116.
PublishMessage(log, topic, value, retain) ==
    Append(log, Msg(topic, value, retain))

\* Variant of format_sensor_topic: the root is left out.
FormatSensorTopic_NoRoot(cfg, topic) == topic

\* MqttConnectionClient.format_sensor_topic, lines 123-125.
FormatSensorTopic(cfg, topic) ==
    Format(cfg.sensor_topic_root) \o <<"/">> \o topic

\* MqttConnectionClient.publish_sensor_value, lines 119-121.
PublishSensorValue(log, cfg, topic, value) ==
    PublishMessage(log, FormatSensorTopic(cfg, topic), value, TRUE)

\* publish_discovery_for_devices, line 119: the discovery topic of a key.
DiscoveryTopic(cfg, sid, key) ==
    Format(cfg.discovery_topic) \o <<"/sensor/purpleair2mqtt_">> \o sid
        \o <<"/", key, "/config">>

\* Variant of BuildSensor: state_topic is the sensor id without the root.
BuildSensor_StateTopicIsId(table, cfg, data, sid, key) ==
    [template              |-> table[key],
     availability_topic    |-> cfg.status_topic,
     payload_available     |-> ONLINE_STATUS,
     payload_not_available |-> OFFLINE_STATUS,
     device_identifiers    |-> <<"purpleair_">> \o sid,
     device_has_name       |-> "Geo" \in data.keys,
     unique_id             |-> <<"purpleair_">> \o sid \o <<"_", key>>,
     state_topic           |-> sid]

\* publish_discovery_for_devices, lines 95-117: the record built for a key
\* from the copy of its template.
BuildSensor(table, cfg, data, sid, key) ==
    [template              |-> table[key],
     availability_topic    |-> cfg.status_topic,
     payload_available     |-> ONLINE_STATUS,
     payload_not_available |-> OFFLINE_STATUS,
     device_identifiers    |-> <<"purpleair_">> \o sid,
     device_has_name       |-> "Geo" \in data.keys,
     unique_id             |-> <<"purpleair_">> \o sid \o <<"_", key>>,
     state_topic           |-> FormatSensorTopic(cfg, sid)]

\* Variant of TableAfterBuild: the record is built in the table's own entry.
TableAfterBuild_NoCopy(table, key, sensor) == [table EXCEPT ![key] = sensor]

\* publish_discovery_for_devices, line 95: the record is built in a copy of
\* the table's entry, so the table is what it was.
TableAfterBuild(table, key, sensor) == table

\* publish_discovery_for_devices, lines 93-122: the loop over data.items()
\* from the i-th key on; yields the table and the messages afterwards.
RECURSIVE DiscoveryLoop(_, _, _, _, _, _)
DiscoveryLoop(i, data, cfg, sid, table, log) ==
    IF i > Len(KeyOrder) THEN [table |-> table, log |-> log]
    ELSE LET key == KeyOrder[i] IN
         IF key \notin data.keys THEN DiscoveryLoop(i + 1, data, cfg, sid, table, log)
         ELSE IF key \in DOMAIN table
              THEN LET sensor == BuildSensor(table, cfg, data, sid, key) IN
                   DiscoveryLoop(i + 1, data, cfg, sid,
                                 TableAfterBuild(table, key, sensor),
                                 PublishMessage(log, DiscoveryTopic(cfg, sid, key),
                                                JsonDumps(sensor), TRUE))
              ELSE DiscoveryLoop(i + 1, data, cfg, sid, table, log)

\* AppConfig.apply_from_dict, lines 99-104, on the freshly built AppConfig.
ApplyFromDict ==
    /\ dpc = "defaults"
    /\ \E data \in Dicts :
         config' = LoadHomeAssistantConfig(LoadMqttConfig(config, data), data)
    /\ dpc' = "loaded"
    /\ UNCHANGED <<controlVars, status_topic, response, sensor_id, published,
                   purple_air_sensors>>

\* MqttConnectionClient.__init__, lines 65-72: the status topic is copied
\* from the configuration.
Construct ==
    /\ dpc = "loaded"
    /\ status_topic' = config.status_topic
    /\ dpc' = "constructed"
    /\ UNCHANGED <<controlVars, config, response, sensor_id, published,
                   purple_air_sensors>>

\* connect_and_loop, line 130: will_set(self.status_topic, ...); the
\* transport refuses a topic that is None or empty with a ValueError.
RegisterWill ==
    /\ dpc = "constructed"
    /\ dpc' = IF status_topic.none \/ status_topic.str = <<>>
              THEN "will_rejected" ELSE "will_ok"
    /\ UNCHANGED <<controlVars, config, status_topic, response, sensor_id,
                   published, purple_air_sensors>>

\* publish_discovery_for_devices, lines 88-122, for one device answering 200.
PublishDiscoveryForDevice ==
    /\ dpc = "will_ok"
    /\ discovery_enabled
    /\ \E text \in Responses :
         LET data == JsonLoads(text)
             sid == StripSeperators(data.SensorId)
             after == DiscoveryLoop(1, data, config, sid, purple_air_sensors,
                                    published)
         IN /\ response' = text
            /\ sensor_id' = sid
            /\ published' = after.log
            /\ purple_air_sensors' = after.table
    /\ dpc' = "discovered"
    /\ UNCHANGED <<controlVars, config, status_topic>>

\* retrieve_latest_data line 58-59 and process_json_data, lines 61-69, for
\* one device answering 200.  After a discovery pass the device answers with
\* the same object, spelled either way.
ProcessJsonData ==
    /\ \/ dpc = "discovered"
       \/ dpc = "will_ok" /\ ~discovery_enabled
    /\ \E text \in (IF dpc = "discovered"
                    THEN {[response EXCEPT !.form = f] : f \in TextForms}
                    ELSE Responses) :
         LET sensor == JsonLoads(text)
             sid == StripSeperators(sensor.SensorId)
         IN /\ response' = text
            /\ sensor_id' = sid
            /\ published' = PublishSensorValue(published, config, sid, text)
    /\ dpc' = "polled"
    /\ UNCHANGED <<controlVars, config, status_topic, purple_air_sensors>>

\* The application as main.py wires it (lines 44-47), before the
\* configuration file is applied.
DataInit ==
    /\ InitControl
    /\ processor = "PurpleAir"
    /\ ~listen_enabled
    /\ refresh_interval_seconds = 2
    /\ dpc = "defaults"
    /\ config = DefaultConfig
    /\ status_topic = DefaultConfig.status_topic
    /\ response = NoResponse
    /\ sensor_id = <<>>
    /\ published = <<>>
    /\ purple_air_sensors = StaticTable

DataNext ==
    \/ ApplyFromDict
    \/ Construct
    \/ RegisterWill
    \/ PublishDiscoveryForDevice
    \/ ProcessJsonData

DataSpec == DataInit /\ [][DataNext]_vars


\* ------------------------------------------------ the loop without end
\* Spec explores MaxTicks iterations.  For what the loop does in the long
\* run the counters of past iterations are history only, so the oldest
\* iteration is forgotten when the bound is reached; the loop `while True`
\* (line 151) then goes on.
ForgetOldestTick ==
    /\ pc = "loop"
    /\ processor = "PurpleAir"
    /\ ticks = MaxTicks
    /\ ticks' = ticks - 1
    /\ sleeps' = sleeps - 1
    /\ pollFetches' = [u \in Urls |-> pollFetches[u] - 1]
    /\ UNCHANGED <<cfgVars, dataVars, pc, crash, interrupted, will_set, lastWill,
                   connectAttempts, mqtt_client, sleep_until, lastRet, lastSleep,
                   idx, hass_discovery_complete, discRuns, lastFetch, cycleRes,
                   cyclePub, prevSkipped, discFetches, discFailed, pubDisc,
                   netVars, histVars>>

\* The application as main.py wires it (lines 44-47): the poller as the
\* processor, no subscription.
LiveInit ==
    /\ Init
    /\ processor = "PurpleAir"
    /\ ~listen_enabled

\* The steps of the main thread when no stop signal arrives.
MainStep ==
    \/ WillSet
    \/ Connect
    \/ SetClient
    \/ LoopStart
    \/ LoopCallTick
    \/ ProcessMqttLoop
    \/ PublishDiscoveryStep
    \/ RetrieveLatestDataStep
    \/ Sleep
    \/ ForgetOldestTick

LiveNext ==
    \/ MainStep
    \/ OnConnect
    \/ OnDisconnect

\* Every statement of the main thread terminates (every HTTP call returns,
\* every sleep ends), so the main thread always takes its next step; the
\* transport owes nothing.
LiveSpec == LiveInit /\ [][LiveNext]_vars /\ WF_vars(MainStep)


\* ================================================================ claims

Last(q) == q[Len(q)]
TeardownOrder == <<"offline", "loop_stop", "disconnect", "clean_up">>
TeardownPrefix(n) == SubSeq(TeardownOrder, 1, n)
InShutdown == {"sd_publish", "sd_loop_stop", "sd_disconnect", "sd_clean_up"}
\* Targets fetched by the poll of the current cycle.
Fetched == {u \in Urls : cycleRes[u] # "none"}
BodyErrors == {"JSONDecodeError", "AttributeError"}

\* C1: with a processor set, an interrupt of the main loop is followed by
\* exactly: publish "offline", loop_stop, disconnect, clean_up, in this
\* order; clean_up runs once, only after disconnect, and the run cannot end
\* with any of the four steps missing.
C1_ShutdownSequence ==
    processor # "None" =>
        /\ (pc \notin InShutdown \cup {"done"} => teardown = <<>>)
        /\ (pc = "sd_publish" => teardown = TeardownPrefix(0))
        /\ (pc = "sd_loop_stop" => teardown = TeardownPrefix(1))
        /\ (pc = "sd_disconnect" => teardown = TeardownPrefix(2))
        /\ (pc = "sd_clean_up" => teardown = TeardownPrefix(3))
        /\ (pc = "done" => teardown = TeardownOrder)
        /\ cleanUps = (IF pc = "done" THEN 1 ELSE 0)
        /\ (cleanUps > 0 => session = "closed" /\ netState = "stopped")
        /\ (interrupted /\ pc \in Terminal /\ mqtt_client /\ netState # "idle"
               => pc = "done")

C1_Witness ==
    /\ processor # "None"
    /\ pc = "done"
    /\ interrupted
    /\ teardown = TeardownOrder
    /\ cleanUps = 1

\* The sleep the claim C2 prescribes for a tick that returned r.
ExpectedSleep(r) == IF ~r.none /\ r.val > 0 THEN r.val ELSE 1

\* C2 (as stated): the orchestrator sleeps d when the tick returned d > 0 and
\* the default 1 second when it returned 0, None or a negative value, and
\* the loop continues.
C2_SleepFollowsReturn ==
    /\ (pc = "sleep" => sleep_until = ExpectedSleep(lastRet))
    /\ (pc = "loop" /\ sleeps > 0 => lastSleep = ExpectedSleep(lastRet))
    /\ crash # "ValueError"

\* C3: publish_discovery_for_devices runs at most once; a tick runs it
\* exactly when discovery is enabled and the tick is the first one.
C3_DiscoveryOnce ==
    [][ /\ discRuns' <= 1
        /\ (~discovery_enabled => discRuns' = 0)
        /\ (pc = "tick" /\ pc' \in {"disc", "poll"} =>
               /\ (pc' = "disc") = (discovery_enabled /\ ticks = 1)
               /\ discRuns' = (IF discovery_enabled THEN 1 ELSE 0)) ]_vars

C3_Witness ==
    /\ discovery_enabled
    /\ ticks = 2
    /\ pc = "poll"
    /\ discRuns = 1

\* C4: in a poll cycle a target whose GET raised a request error or answered
\* non-200 has nothing published and does not stop the cycle: the fetch of
\* the next target (or the normal end of the cycle) follows; the targets are
\* fetched in order without gaps and every target that succeeded has been
\* published once.
C4_FailedTargetSkipped ==
    [][ /\ (pc = "poll" /\ pollFetches' # pollFetches /\ HttpFailed(lastFetch') =>
               /\ cycleRes'[idx] = "skip"
               /\ cyclePub' = cyclePub
               /\ crash' = crash
               /\ IF idx < NumUrls
                  THEN pc' = "poll" /\ idx' = idx + 1
                  ELSE pc' = "sleep")
        /\ (pc = "poll" /\ pollFetches' # pollFetches =>
               HttpFailed(lastFetch') = (cycleRes'[idx] = "skip"))
        /\ \A u \in Urls :
              /\ (cycleRes'[u] = "skip" => cyclePub'[u] = 0)
              /\ (cycleRes'[u] = "publish" => cyclePub'[u] = 1)
        /\ (pc' = "poll" => {u \in Urls : cycleRes'[u] # "none"} = 1..(idx' - 1))
        /\ (pc' = "sleep" /\ processor = "PurpleAir" =>
               \A u \in Urls : cycleRes'[u] \in {"skip", "publish"}) ]_vars

C4_Witness ==
    /\ pc = "sleep"
    /\ cycleRes[1] = "skip"
    /\ cyclePub[1] = 0
    /\ cycleRes[NumUrls] = "publish"
    /\ cyclePub[NumUrls] = 1

\* C5 (as stated): a target answering 200 with a body that is not valid JSON
\* or has no SensorId does not end the tick or the main loop, and the
\* remaining targets are still polled.
C5_BadBodyDoesNotStopCycle ==
    \A u \in Urls :
        cycleRes[u] \in BodyErrors =>
            /\ pc # "crashed"
            /\ (u < NumUrls /\ cycleRes[u + 1] = "none"
                  => \/ pc = "poll" /\ idx = u + 1
                     \/ interrupted)

\* C6 (as stated): an inbound message on a topic for which wants_json is
\* true and whose payload is not valid JSON is dropped: on_message does not
\* raise, process_mqtt_event is not called, and the network thread keeps
\* handling messages.
C6_MalformedJsonDropped ==
    (lastMsg.wants /\ lastMsg.payload \in {"badjson", "badutf8"}) =>
        /\ lastMsg.result = "dropped"
        /\ netState # "dead"

\* C7 (as stated): after a completed teardown the last status publish is
\* "offline".
C7_LastStatusOffline ==
    pc = "done" => (statusLog # <<>> /\ Last(statusLog) = "offline")

\* C8 (as stated): process_mqtt_loop is first invoked only after on_connect
\* has run and published "online".
C8_TickAfterOnConnect ==
    ticks > 0 => (onConnects > 0 /\ statusLog # <<>> /\ statusLog[1] = "online")

\* C8 (amended): process_mqtt_loop is invoked only after the last will was
\* registered, the single connect attempt succeeded, the handle was stored
\* and the network thread was started; the teardown comes after the loop.
C8_TickAfterLoopStart ==
    /\ (ticks > 0 =>
           /\ will_set
           /\ connectAttempts = 1
           /\ session # "none"
           /\ mqtt_client
           /\ netState # "idle")
    /\ (pc \in {"tick", "disc", "poll"} => netState \in {"running", "dead"})
    /\ (teardown # <<>> => mqtt_client /\ netState # "idle")

C8_Witness ==
    /\ ticks > 0
    /\ onConnects = 0
    /\ statusLog = <<>>
    /\ pc = "sleep"

\* C9 (as stated): once the loop has ticked, connect_and_loop ends only
\* through the complete teardown, whatever the tick did.
C9_EndsOnlyThroughTeardown ==
    (pc \in Terminal /\ ticks > 0 /\ processor # "None") =>
        (pc = "done" /\ interrupted /\ teardown = TeardownOrder)

\* C10 (as stated): a target whose fetch failed, in polling or in discovery,
\* has the same work attempted again at the next tick.
C10_FailedWorkRetried ==
    \A u \in Urls :
        (ticks >= 2 /\ pc = "sleep") =>
            /\ (u \in prevSkipped => pollFetches[u] >= 2)
            /\ (discFailed[u] => discFetches[u] >= 2)

\* C10 (amended): every tick's poll fetches every target again, whatever
\* happened to it in earlier cycles; discovery is fetched at most once per
\* target, so a failed discovery fetch is not attempted again.
C10_PollRetriedDiscoveryNot ==
    processor = "PurpleAir" =>
        /\ \A u \in Urls :
              /\ discFetches[u] <= 1
              /\ (pc = "poll" =>
                     pollFetches[u] = (IF u < idx THEN ticks ELSE ticks - 1))
              /\ (pc = "sleep" => pollFetches[u] = ticks)
        /\ (pc \in {"poll", "sleep"} /\ ticks >= 2 =>
               \A u \in Urls : discFetches[u] = (IF discovery_enabled THEN 1 ELSE 0))

C10_Witness ==
    /\ ticks = 2
    /\ pc = "sleep"
    /\ 1 \in prevSkipped
    /\ pollFetches[1] = 2
    /\ discFailed[1]
    /\ discFetches[1] = 1

\* Publishes made so far by the poller, over all targets.
NoPollerActivity ==
    /\ ticks = 0
    /\ discRuns = 0
    /\ \A u \in Urls :
          /\ pollFetches[u] = 0
          /\ discFetches[u] = 0
          /\ cyclePub[u] = 0
          /\ pubDisc[u] = 0

\* C11: when the initial connect raises, connect_and_loop is over after that
\* single attempt (connect is never attempted twice): the network thread was
\* not started, process_mqtt_loop and clean_up were not called, nothing was
\* published and the client handle is still unset.
C11_ConnectFailurePropagates ==
    /\ connectAttempts <= 1
    /\ (connectAttempts = 1 /\ session = "none" =>
           /\ pc = "connect_failed"
           /\ crash = "ConnectError")
    /\ (pc = "connect_failed" =>
           /\ connectAttempts = 1
           /\ netState = "idle"
           /\ onConnects = 0
           /\ msgs = 0
           /\ NoPollerActivity
           /\ sleeps = 0
           /\ cleanUps = 0
           /\ teardown = <<>>
           /\ statusLog = <<>>
           /\ ~mqtt_client)

C11_Witness ==
    /\ pc = "connect_failed"
    /\ crash = "ConnectError"
    /\ connectAttempts = 1
    /\ ~mqtt_client
    /\ netState = "idle"

\* Positions in statusLog of the "online" publishes.
OnlinePublishes == {i \in DOMAIN statusLog : statusLog[i] = ONLINE_STATUS}

\* C12: every on_connect (the first and every reconnect) subscribes exactly
\* when listen_enabled is set and, either way, publishes a retained "online"
\* on the status topic; with listen_enabled False no subscribe is ever made.
C12_OnConnectSubscribesAndPublishes ==
    /\ subscribes = (IF listen_enabled THEN onConnects ELSE 0)
    /\ Cardinality(OnlinePublishes) = onConnects
    /\ Len(statusRetain) = Len(statusLog)
    /\ \A i \in OnlinePublishes : statusRetain[i] = TRUE

C12_Witness ==
    /\ processor = "PurpleAir"
    /\ ~listen_enabled
    /\ onConnects = 2
    /\ subscribes = 0
    /\ statusLog = <<ONLINE_STATUS, ONLINE_STATUS>>
    /\ statusRetain = <<TRUE, TRUE>>

\* C13: the last will (retained "offline" on the status topic) is registered
\* before the connect attempt, in every run, also when the connect fails.
C13_WillBeforeConnect ==
    /\ (pc = "new" => ~will_set /\ connectAttempts = 0 /\ lastWill = NoWill)
    /\ (pc = "connect" => will_set /\ connectAttempts = 0)
    /\ (connectAttempts > 0 =>
           /\ will_set
           /\ lastWill = [payload |-> OFFLINE_STATUS, retain |-> TRUE])

C13_Witness ==
    /\ pc = "connect_failed"
    /\ will_set
    /\ lastWill.payload = OFFLINE_STATUS
    /\ lastWill.retain

\* Sum of f over the targets 1..n.
RECURSIVE SumTo(_, _)
SumTo(f, n) == IF n = 0 THEN 0 ELSE f[n] + SumTo(f, n - 1)
\* GETs issued so far, by the discovery pass and by the poll passes.
TotalGets == SumTo(discFetches, NumUrls) + SumTo(pollFetches, NumUrls)
\* Every target of the current cycle answered 200 with a well-formed body.
AllAnsweredOk == \A u \in Urls : cycleRes[u] = "publish" /\ ~discFailed[u]

\* C16: with N entries in the URL list, all answering 200 and well-formed, at
\* the end of the k-th tick every entry has had one GET per tick by the poll
\* and one sensor-value publish in this cycle; the discovery pass added N
\* GETs to the first tick only (2N after tick 1, N more per later tick); and
\* the tick returned refresh_interval_seconds.
C16_GetsAndPublishesPerTick ==
    (processor = "PurpleAir" /\ pc = "sleep" /\ AllAnsweredOk) =>
        /\ \A u \in Urls :
              /\ pollFetches[u] = ticks
              /\ cyclePub[u] = 1
              /\ discFetches[u] = (IF discovery_enabled THEN 1 ELSE 0)
        /\ SumTo(cyclePub, NumUrls) = NumUrls
        /\ TotalGets = NumUrls * ticks + (IF discovery_enabled THEN NumUrls ELSE 0)
        /\ lastRet = RetInt(refresh_interval_seconds)

C16_Witness ==
    /\ processor = "PurpleAir"
    /\ discovery_enabled
    /\ pc = "sleep"
    /\ ticks = 2
    /\ AllAnsweredOk
    /\ TotalGets = 3 * NumUrls
    /\ SumTo(cyclePub, NumUrls) = NumUrls

\* C19 (as stated): an interrupt arriving during a poll cycle does not abort
\* it: when the teardown begins, every target of the cycle has been fetched.
C19_InterruptDoesNotAbortCycle ==
    (processor = "PurpleAir" /\ ticks > 0 /\ pc \in InShutdown \cup {"done"}) =>
        Fetched = Urls

\* C19 (amended): the teardown is entered only through the interrupt, and
\* the interrupt takes effect at once: after it the main thread is never
\* again inside the loop, so no further target is fetched or published.
C19_InterruptAbortsCycle ==
    /\ (interrupted => pc \notin InTry)
    /\ (pc \in InShutdown \cup {"done"} => interrupted)
    /\ (teardown # <<>> => interrupted)

C19_Witness ==
    /\ interrupted
    /\ pc = "sd_publish"
    /\ ticks = 1
    /\ cycleRes[1] = "publish"
    /\ cycleRes[NumUrls] = "none"
    /\ pollFetches[NumUrls] = 0

\* C20 (as stated): with a processor set, on_message decodes the payload as
\* JSON exactly when wants_json is true for the topic, hands the raw payload
\* to process_mqtt_event otherwise, and calls process_mqtt_event once for
\* every message that was not dropped for a decode failure.
C20_DecodeIffWantsJson ==
    (msgs > 0 /\ processor # "None") =>
        /\ lastMsg.wants = (lastMsg.result \in {"decoded", "dropped"})
        /\ (~lastMsg.wants => lastMsg.result = "raw")
        /\ (lastMsg.result # "dropped" => lastMsg.called)

\* ---- claims about topics and payloads (DataSpec)

Defined(v) == ~v.none /\ v.str # <<>>

\* C14 (as stated): whatever dictionary was applied to the default
\* configuration, the status topic is defined and the sensor-topic root is a
\* non-empty string when connect_and_loop registers the last will.
C14_TopicsDefinedAfterLoad ==
    dpc \in {"constructed", "will_ok", "will_rejected", "discovered", "polled"} =>
        /\ Defined(status_topic)
        /\ Defined(config.sensor_topic_root)

NotSeparator(c) == c \notin Separators
\* s with exactly the separator characters removed.
WithoutSeparators(s) == SelectSeq(s, NotSeparator)

\* C15: the SensorId after strip_seperators contains no space, comma, colon
\* or hyphen and is the original with exactly those characters removed, the
\* others in their order; "AB:12, 34-5" becomes "AB12345".
C15_StripRemovesExactlySeparators ==
    dpc \in {"discovered", "polled"} =>
        /\ \A i \in DOMAIN sensor_id : sensor_id[i] \notin Separators
        /\ sensor_id = WithoutSeparators(response.SensorId)
        /\ (response.SensorId = ExampleId =>
               sensor_id = <<"A", "B", "1", "2", "3", "4", "5">>)

C15_Witness ==
    /\ dpc = "polled"
    /\ response.SensorId = ExampleId
    /\ sensor_id = <<"A", "B", "1", "2", "3", "4", "5">>

\* C17: a fetched body is published exactly once by the poll, retained, on
\* the topic <sensor_topic_root>/<SensorId without separators>, and the
\* payload is the body text as received.
C17_SensorValuePublish ==
    dpc = "polled" =>
        LET m == Last(published) IN
        /\ m.retain = TRUE
        /\ m.payload = response
        /\ Cardinality({i \in DOMAIN published :
                            published[i].payload = response}) = 1
        /\ (~config.sensor_topic_root.none =>
               /\ m.topic = config.sensor_topic_root.str \o <<"/">>
                                \o WithoutSeparators(response.SensorId)
               /\ Cardinality({i \in DOMAIN published :
                                   published[i].topic = m.topic}) = 1)

C17_Witness ==
    /\ dpc = "polled"
    /\ response = [form |-> "spaced", SensorId |-> <<"A", ":", "1">>,
                   keys |-> {"Adc"}]
    /\ Len(published) = 2
    /\ published[2] = [topic |-> <<"rt", "/", "A", "1">>,
                       payload |-> response, retain |-> TRUE]

\* Keys of the latest response that the static table knows.
KnownKeys == ({"SensorId"} \cup response.keys) \cap TableKeys
ExpectedDiscoveryTopic(k) ==
    config.discovery_topic.str \o <<"/sensor/purpleair2mqtt_">>
        \o WithoutSeparators(response.SensorId) \o <<"/", k, "/config">>

\* C18: the discovery pass publishes, for a fetched device, exactly one
\* retained message per response key that is a key of purple_air_sensors, on
\* <discovery_topic>/sensor/purpleair2mqtt_<sensorId>/<key>/config; other
\* keys publish nothing and raise nothing; the static table is unchanged.
C18_DiscoveryPerKnownKey ==
    /\ purple_air_sensors = StaticTable
    /\ (dpc = "discovered" =>
           /\ Len(published) = Cardinality(KnownKeys)
           /\ \A k \in KnownKeys :
                 Cardinality({i \in DOMAIN published :
                                 published[i].topic = ExpectedDiscoveryTopic(k)}) = 1
           /\ \A i \in DOMAIN published : published[i].retain = TRUE)

C18_Witness ==
    /\ dpc = "discovered"
    /\ response.SensorId = <<"A", "-", "1">>
    /\ response.keys = {"Adc", "version"}
    /\ config.discovery_topic = PyStr(<<"dt">>)
    /\ Len(published) = 1
    /\ published[1].topic =
           <<"dt", "/sensor/purpleair2mqtt_", "A", "1", "/", "Adc", "/config">>
    /\ published[1].retain
    /\ purple_air_sensors = StaticTable

\* ---- claims about ownership and frames (Spec)

\* C21: mqtt_client is written once, by connect_and_loop before loop_start,
\* so the network thread and the ticks only ever see it set; the
\* discovery-published flag is written only by a step of the main-loop
\* tick; no step writes a configuration field.
C21_NoSharedMutableState ==
    [][ /\ (mqtt_client' # mqtt_client =>
               /\ pc = "set_client"
               /\ ~mqtt_client
               /\ netState = "idle")
        /\ (netState' # "idle" => mqtt_client')
        /\ (ticks' > 0 \/ onConnects' > 0 \/ msgs' > 0 => mqtt_client')
        /\ (hass_discovery_complete' # hass_discovery_complete =>
               pc = "tick" /\ pc' = "disc")
        /\ cfgVars' = cfgVars
        /\ config' = config
        /\ status_topic' = status_topic ]_vars

C21_Witness ==
    /\ mqtt_client
    /\ netState = "running"
    /\ onConnects > 0
    /\ msgs > 0
    /\ ticks > 0
    /\ hass_discovery_complete
    /\ pc = "poll"

\* C22: with PurpleAirReceiver as the processor an inbound message, at
\* whatever point of the main loop it arrives, is handed over undecoded to a
\* process_mqtt_event that does nothing: the poller, the orchestrator, the
\* session and the publishes made so far are what they were.
C22_InboundIsNoOpForPoller ==
    [][ (processor = "PurpleAir" /\ msgs' # msgs) =>
            /\ ~lastMsg'.wants
            /\ lastMsg'.result = "raw"
            /\ netState' = netState
            /\ UNCHANGED <<cfgVars, dataVars, mainVars, pollVars, histVars>>
            /\ UNCHANGED <<session, subscribes, statusLog, statusRetain,
                           onConnects>> ]_vars

C22_Witness ==
    /\ processor = "PurpleAir"
    /\ msgs = 1
    /\ lastMsg.payload = "badutf8"
    /\ lastMsg.result = "raw"
    /\ netState = "running"
    /\ pc = "poll"
    /\ idx = NumUrls

\* The session was up and has been lost since.
Disconnected == session = "pending" /\ onConnects > 0

\* C23: on_disconnect, whatever the reason code, makes no connect call,
\* publishes nothing and leaves the orchestrator and the processor as they
\* were; with the session lost the main loop can still take its next tick.
C23_OnDisconnectOnlyLogs ==
    /\ [][ (session = "up" /\ session' = "pending") =>
               /\ UNCHANGED <<cfgVars, dataVars, mainVars, pollVars, histVars>>
               /\ UNCHANGED <<netState, subscribes, statusLog, statusRetain,
                              onConnects, msgs, lastMsg>> ]_vars
    /\ []((Disconnected /\ pc = "loop" /\ processor = "PurpleAir"
             /\ ticks < MaxTicks) => ENABLED LoopCallTick)

C23_Witness ==
    /\ Disconnected
    /\ processor = "PurpleAir"
    /\ onConnects = 1
    /\ statusLog = <<ONLINE_STATUS>>
    /\ connectAttempts = 1
    /\ pc = "tick"
    /\ ticks = 2

\* C24: the discovery-published flag is false until the first tick, is set
\* by the first tick when discovery is enabled, before any discovery fetch
\* or publish, is never reset, and stays false when discovery is disabled.
C24_DiscoveryFlag ==
    [][ /\ (ticks = 0 => ~hass_discovery_complete)
        /\ (hass_discovery_complete => hass_discovery_complete')
        /\ (~discovery_enabled => ~hass_discovery_complete')
        /\ (hass_discovery_complete' /\ ~hass_discovery_complete =>
               /\ discovery_enabled
               /\ pc = "tick"
               /\ ticks = 1
               /\ \A u \in Urls : discFetches[u] = 0 /\ pubDisc[u] = 0)
        /\ (discFetches' # discFetches \/ pubDisc' # pubDisc =>
               hass_discovery_complete)
        /\ (discovery_enabled /\ processor = "PurpleAir" /\ pc' \in {"disc", "poll"}
               => hass_discovery_complete') ]_vars

C24_Witness ==
    /\ hass_discovery_complete
    /\ pc = "poll"
    /\ ticks = 2
    /\ \A u \in Urls : discFailed[u] /\ discFetches[u] = 1 /\ pubDisc[u] = 0

\* C25: in the tick that runs discovery, the discovery records of a device
\* are published before its sensor value; each record's state_topic is the
\* topic the sensor value is published on, and its availability topic is
\* the status topic of the orchestrator.
C25_DiscoveryBeforeValues ==
    (dpc = "polled" /\ discovery_enabled) =>
        LET n == Len(published) IN
        /\ n = Cardinality(KnownKeys) + 1
        /\ published[n].payload = response
        /\ \A i \in 1..(n - 1) :
              /\ published[i].payload.form = "dumps"
              /\ published[i].payload.value.state_topic = published[n].topic
              /\ published[i].payload.value.availability_topic = status_topic

C25_Witness ==
    /\ dpc = "polled"
    /\ discovery_enabled
    /\ status_topic = PyStr(<<"st">>)
    /\ Len(published) = 3
    /\ published[1].payload.value.state_topic = <<"rt", "/", "A">>
    /\ published[2].payload.value.availability_topic = PyStr(<<"st">>)
    /\ published[3].topic = <<"rt", "/", "A">>

\* The teardown has published "offline".
OfflinePublished == \E i \in DOMAIN statusLog : statusLog[i] = OFFLINE_STATUS

\* C26: once the teardown has published "offline" the main thread is past
\* the loop for good: it is at one of the later teardown steps or has ended,
\* so process_mqtt_loop is not invoked and no sensor value or discovery
\* record is published any more.
C26_NothingAfterOffline ==
    /\ (OfflinePublished =>
           /\ pc \in {"sd_loop_stop", "sd_disconnect", "sd_clean_up", "done",
                      "crashed"}
           /\ interrupted
           /\ teardown # <<>>
           /\ teardown[1] = "offline")
    /\ (pc \in {"loop", "tick", "disc", "poll", "sleep"} => ~OfflinePublished)

C26_Witness ==
    /\ OfflinePublished
    /\ pc = "done"
    /\ ticks = 2
    /\ \E u \in Urls : cyclePub[u] = 1 /\ pubDisc[u] = 1

\* C27 (as stated): without a processor the loop makes no tick call and
\* sleeps the default second, inbound messages are ignored without error,
\* and an interrupt of the loop ends in a completed teardown and a normal
\* return of connect_and_loop.
C27_NoProcessorRunsAndStops ==
    processor = "None" =>
        /\ ticks = 0
        /\ (pc = "sleep" => sleep_until = DefaultSleep)
        /\ (sleeps > 0 => lastSleep = DefaultSleep)
        /\ (msgs > 0 => lastMsg.result = "ignored" /\ netState # "dead")
        /\ (teardown # <<>> /\ pc \in Terminal =>
               /\ pc = "done"
               /\ SubSeq(teardown, 1, 3) = TeardownPrefix(3))
        /\ crash \notin {"AttributeError", "ValueError"}

\* ---- liveness (LiveSpec)

\* C28 (as stated): after a successful connect, with no stop signal and
\* every 200 body well-formed, the tick is invoked again and again, every
\* target is fetched in infinitely many cycles whatever the others do, and
\* a target that answers 200 again and again is published again and again.
C28_TicksForever ==
    \/ <>(pc = "connect_failed" \/ crash \in BodyErrors)
    \/ /\ []<>(pc = "tick")
       /\ \A u \in Urls :
             /\ []<>(cycleRes[u] # "none")
             /\ ([]<>(cycleRes[u] = "publish") => []<>(cyclePub[u] = 1))

====
